---------------------------- MODULE Spec2Model ----------------------------
(***************************************************************************)
(* jitcalc: a one-accumulator calculator whose program text ("+ - * /") is *)
(* parsed to abstract instructions, translated to x86_64 machine code and  *)
(* run from an mmap'ed region (src/src/main.rs).  The aarch64 emitters of  *)
(* src/src/aarch64.rs are modelled as the backend of another build.        *)
(*                                                                         *)
(* Machine words are WordBits wide in this model (64 in the program): all  *)
(* register arithmetic is two's complement modulo 2^WordBits, and the      *)
(* double-width RDX:RAX operand of IMUL / IDIV is 2 * WordBits wide.       *)
(* Bytes of machine code keep their real width (8 bits).                   *)
(***************************************************************************)
EXTENDS Integers, Sequences, FiniteSets, TLC

VARIABLES
    backend,          \* the backend the build links: x86_64 (main.rs:82) or aarch64
    program,          \* main.rs:15   the program text, a sequence of characters
    insn_seq,         \* main.rs:18   Vec<Insn>
    native_insn_seq,  \* main.rs:21   Vec<u8> produced by jit
    pc,               \* position of the running function
    code_mem,         \* main.rs:59   the mapping: [mapped, prot, bytes]
    cpu,              \* register file and instruction pointer during the native call
    result,           \* main.rs:77   value captured from the native call
    ret,              \* what exec returned: Ok(val) or Err(err)
    log,              \* the steps this exec invocation has performed, in order
    finished,         \* outcomes of earlier exec invocations on the same buffer
    interp,           \* what interpret returned for insn_seq
    enc_in,           \* argument list handed to rex / modrm
    enc_out           \* byte returned by rex / modrm

vars == <<backend, program, insn_seq, native_insn_seq, pc, code_mem, cpu, result, ret,
          log, finished, interp, enc_in, enc_out>>

---------------------------------------------------------------------------
(* Bounds of the model *)

WordBits == 5
MaxLen == 4
MaxJitLen == 3
MaxProgLen == 4
MaxOpts == 4
MaxParts == 3

---------------------------------------------------------------------------
(* Bit arithmetic on naturals, as Rust's |, &, ^ and << on u8 *)

RECURSIVE Pow2(_)
Pow2(n) == IF n = 0 THEN 1 ELSE 2 * Pow2(n - 1)

RECURSIVE BitOr(_, _)
BitOr(a, b) ==
    IF a = 0 THEN b
    ELSE IF b = 0 THEN a
    ELSE (IF a % 2 = 1 \/ b % 2 = 1 THEN 1 ELSE 0) + 2 * BitOr(a \div 2, b \div 2)

RECURSIVE BitAnd(_, _)
BitAnd(a, b) ==
    IF a = 0 \/ b = 0 THEN 0
    ELSE (IF a % 2 = 1 /\ b % 2 = 1 THEN 1 ELSE 0) + 2 * BitAnd(a \div 2, b \div 2)

RECURSIVE BitXor(_, _)
BitXor(a, b) ==
    IF a = 0 THEN b
    ELSE IF b = 0 THEN a
    ELSE (IF a % 2 # b % 2 THEN 1 ELSE 0) + 2 * BitXor(a \div 2, b \div 2)

\* u8 << n : bits shifted past bit 7 are lost
Shl8(a, n) == (a * Pow2(n)) % 256

---------------------------------------------------------------------------
(* mod x86_64: bit-field encoders *)

RexFlags == {"W", "R", "X", "B"}

RexShift(opt) ==
    CASE opt = "W" -> 3
      [] opt = "R" -> 2
      [] opt = "X" -> 1
      [] opt = "B" -> 0

RECURSIVE RexLoop(_, _)
RexLoop(opts, acc) ==
    IF opts = <<>> THEN acc
    ELSE RexLoop(Tail(opts), BitOr(acc, Shl8(1, RexShift(Head(opts)))))

rex(opts) == RexLoop(opts, 64)

Mod(m) == [kind |-> "Mod", val |-> m]
Reg(r) == [kind |-> "Reg", val |-> r]
RM(b) == [kind |-> "RM", val |-> b]

ModrmPart(acc, part) ==
    CASE part.kind = "Mod" -> BitOr(acc, Shl8(BitAnd(part.val, 3), 6))
      [] part.kind = "Reg" -> BitOr(acc, Shl8(BitAnd(part.val, 7), 3))
      [] part.kind = "RM" -> BitOr(acc, BitAnd(part.val, 7))

RECURSIVE ModrmLoop(_, _)
ModrmLoop(parts, acc) ==
    IF parts = <<>> THEN acc
    ELSE ModrmLoop(Tail(parts), ModrmPart(acc, Head(parts)))

ModrmPartUnmasked(acc, part) ==
    CASE part.kind = "Mod" -> BitOr(acc, Shl8(part.val, 6))
      [] part.kind = "Reg" -> BitOr(acc, Shl8(part.val, 3))
      [] part.kind = "RM" -> BitOr(acc, part.val)

RECURSIVE ModrmLoopUnmasked(_, _)
ModrmLoopUnmasked(parts, acc) ==
    IF parts = <<>> THEN acc
    ELSE ModrmLoopUnmasked(Tail(parts), ModrmPartUnmasked(acc, Head(parts)))

modrm_unmasked(parts) == ModrmLoopUnmasked(parts, 0)

modrm(parts) == ModrmLoop(parts, 0)

---------------------------------------------------------------------------
(* mod x86_64: opcode emitters *)

Insns == {"Reset", "Return", "Incr", "Decr", "Double", "Halve"}
UserInsns == {"Incr", "Decr", "Double", "Halve"}

\* XOR r/m64, r64 : REX.W + 31 /r
reset_accum == <<rex(<<"W">>), 49, modrm(<<Mod(3), Reg(0)>>)>>

\* RET : C3
func_return == <<195>>

\* ADD r/m64, imm8 : REX.W + 83 /0 ib
incr == <<rex(<<"W">>), 131, modrm(<<Mod(3)>>), 1>>

\* SUB r/m64, imm32 : REX.W + 81 /5 id
decr == <<rex(<<"W">>), 129, modrm(<<Mod(3), Reg(5), RM(0)>>), 1, 0, 0, 0>>

\* MOV rcx, 2 : REX.W + C7 /0 id ; IMUL rcx : REX.W + F7 /5
double ==
    <<rex(<<"W">>), 199, modrm(<<Mod(3), RM(1)>>), 2, 0, 0, 0,
      rex(<<"W">>), 247, modrm(<<Mod(3), Reg(5), RM(1)>>)>>

halve_scratch_rbx ==
    <<rex(<<"W">>), 199, modrm(<<Mod(3), RM(3)>>), 2, 0, 0, 0,
      rex(<<"W">>), 247, modrm(<<Mod(3), Reg(7), RM(3)>>)>>

\* MOV rcx, 2 : REX.W + C7 /0 id ; IDIV rcx : REX.W + F7 /7
halve ==
    <<rex(<<"W">>), 199, modrm(<<Mod(3), RM(1)>>), 2, 0, 0, 0,
      rex(<<"W">>), 247, modrm(<<Mod(3), Reg(7), RM(1)>>)>>

x86_64_native_insns(insn) ==
    CASE insn = "Reset" -> reset_accum
      [] insn = "Return" -> func_return
      [] insn = "Incr" -> incr
      [] insn = "Decr" -> decr
      [] insn = "Double" -> double
      [] insn = "Halve" -> halve

---------------------------------------------------------------------------
(* aarch64.rs: opcode emitters.  A u32 instruction word is the pair of its *)
(* 16-bit halves <<high, low>>, so that every number stays below 2^31.     *)

U32(n) == <<n \div 65536, n % 65536>>
Or32(a, b) == <<BitOr(a[1], b[1]), BitOr(a[2], b[2])>>

arm_u32_insn_to_bytes(encoded) ==
    << BitAnd(encoded[2], 255),
       BitAnd(encoded[2], 65280) \div 256,
       BitAnd(encoded[1], 255),
       BitAnd(encoded[1], 65280) \div 256 >>

\* the instruction templates of aarch64.rs, as <<high half, low half>>
MOVZ == <<21120, 0>>          \* 0x52800000
RET == <<54879, 0>>           \* 0xD65F0000
ADDS == <<45312, 0>>          \* 0xB1000000
SUBS == <<61696, 0>>          \* 0xF1000000
MADD == <<39680, 0>>          \* 0x9B000000
SDIV == <<39616, 3072>>       \* 0x9AC00C00

\* MOVZ x0, 0
a64_reset_accum == arm_u32_insn_to_bytes(MOVZ)

\* RET x30
a64_func_return == arm_u32_insn_to_bytes(Or32(RET, U32(30 * Pow2(5))))

\* ADDS x0, x0, 1
a64_incr == arm_u32_insn_to_bytes(Or32(ADDS, U32(1 * Pow2(10))))

\* SUBS x0, x0, 1
a64_decr == arm_u32_insn_to_bytes(Or32(SUBS, U32(1 * Pow2(10))))

\* MOVZ x1, 2 ; MOVZ x2, 0 ; MADD x0, x0, x1, x2
a64_double ==
    arm_u32_insn_to_bytes(Or32(Or32(MOVZ, U32(2 * Pow2(5))), U32(1)))
    \o arm_u32_insn_to_bytes(Or32(MOVZ, U32(2)))
    \o arm_u32_insn_to_bytes(Or32(Or32(MADD, U32(1 * Pow2(16))), U32(2 * Pow2(10))))

\* MOVZ x1, 2 ; SDIV x0, x0, x1
a64_halve ==
    arm_u32_insn_to_bytes(Or32(Or32(MOVZ, U32(2 * Pow2(5))), U32(1)))
    \o arm_u32_insn_to_bytes(Or32(SDIV, U32(1 * Pow2(16))))

aarch64_native_insns(insn) ==
    CASE insn = "Reset" -> a64_reset_accum
      [] insn = "Return" -> a64_func_return
      [] insn = "Incr" -> a64_incr
      [] insn = "Decr" -> a64_decr
      [] insn = "Double" -> a64_double
      [] insn = "Halve" -> a64_halve

Backends == {"x86_64", "aarch64"}

\* the emitter table of the backend the build links
native_insns(arch, insn) ==
    IF arch = "aarch64" THEN aarch64_native_insns(insn) ELSE x86_64_native_insns(insn)

---------------------------------------------------------------------------
(* parse, jit, interpret *)

Chars == {"+", "-", "*", "/", " ", "x"}

\* the closure of parse: Some(insn) is <<insn>>, None is <<>>
parse_char(ch) ==
    CASE ch = "+" -> <<"Incr">>
      [] ch = "-" -> <<"Decr">>
      [] ch = "*" -> <<"Double">>
      [] ch = "/" -> <<"Halve">>
      [] OTHER -> <<>>

RECURSIVE parse_stops_at_unknown(_)
parse_stops_at_unknown(text) ==
    IF text = <<>> \/ parse_char(Head(text)) = <<>> THEN <<>>
    ELSE parse_char(Head(text)) \o parse_stops_at_unknown(Tail(text))

RECURSIVE parse(_)
parse(text) ==
    IF text = <<>> THEN <<>>
    ELSE parse_char(Head(text)) \o parse(Tail(text))

RECURSIVE JitLoop(_, _, _)
JitLoop(arch, seq, native) ==
    IF seq = <<>> THEN native
    ELSE JitLoop(arch, Tail(seq), native \o native_insns(arch, Head(seq)))

jit_no_epilogue(arch, seq) == JitLoop(arch, seq, native_insns(arch, "Reset"))

jit(arch, seq) ==
    JitLoop(arch, seq, native_insns(arch, "Reset")) \o native_insns(arch, "Return")


---------------------------------------------------------------------------
(* Machine words *)

Word == Pow2(WordBits)
Words == 0 .. Word - 1
MinInt == -(Word \div 2)
MaxInt == (Word \div 2) - 1

\* the two's complement reading of a word (u64 as i64)
ToSigned(w) == IF w >= Word \div 2 THEN w - Word ELSE w
ToWord(i) == i % Word

Abs(i) == IF i < 0 THEN -i ELSE i

\* signed division truncating toward zero, and its remainder
TruncDiv(a, b) ==
    IF (a >= 0) = (b > 0) THEN Abs(a) \div Abs(b) ELSE -(Abs(a) \div Abs(b))
TruncRem(a, b) == a - b * TruncDiv(a, b)

---------------------------------------------------------------------------
(* interpret: the reference fold over a u64 accumulator.  Arithmetic      *)
(* overflow of u64 panics in a build with overflow checks and wraps in a  *)
(* build without them.                                                     *)

\* one arm of the match, on a u64: the new value, or a panic
InterpStep(accum, insn, checks) ==
    LET raw == CASE insn = "Reset" -> 0
                 [] insn = "Incr" -> accum + 1
                 [] insn = "Decr" -> accum - 1
                 [] insn = "Double" -> accum * 2
                 [] insn = "Halve" -> accum \div 2
    IN  [panicked |-> checks /\ raw \notin Words, val |-> ToWord(raw)]

RECURSIVE InterpLoop(_, _, _)
InterpLoop(seq, accum, checks) ==
    IF seq = <<>> \/ Head(seq) = "Return" THEN [panicked |-> FALSE, val |-> accum]
    ELSE LET r == InterpStep(accum, Head(seq), checks)
         IN  IF r.panicked THEN r ELSE InterpLoop(Tail(seq), r.val, checks)

interpret(seq, checks) == InterpLoop(seq, 0, checks)

---------------------------------------------------------------------------
(* The host CPU running the bytes of the region: the call of main.rs:77.   *)
(* Only the instruction forms the emitters produce are decoded; any other  *)
(* byte pattern ends the process.                                          *)

\* register number of a ModRM field (REX.R / REX.B clear)
RegOf(n) ==
    CASE n = 0 -> "rax"
      [] n = 1 -> "rcx"
      [] n = 2 -> "rdx"
      [] n = 3 -> "rbx"
      [] n = 4 -> "rsp"
      [] OTHER -> "none"

\* bytes past the copied code are the zero fill of the anonymous mapping
ByteAt(mem, i) == IF i \in 1 .. Len(mem) THEN mem[i] ELSE 0

\* imm8 sign-extended to the word
Imm8(mem, i) ==
    LET b == ByteAt(mem, i) IN ToWord(IF b >= 128 THEN b - 256 ELSE b)

\* imm32 sign-extended to the word; WordBits < 32, so the word keeps the
\* low bits of the little-endian value and bit 31 never reaches it
Imm32(mem, i) ==
    ToWord(ByteAt(mem, i) + 256 * ByteAt(mem, i + 1) + 65536 * ByteAt(mem, i + 2)
           + 16777216 * (ByteAt(mem, i + 3) % 128))

Undecoded == [op |-> "ud", reg |-> "none", rm |-> "none", imm |-> 0, len |-> 1]

DecodeX86(mem, rip) ==
    LET b0 == ByteAt(mem, rip)
        b1 == ByteAt(mem, rip + 1)
        m  == ByteAt(mem, rip + 2)
        md == m \div 64
        rg == (m \div 8) % 8
        rm == m % 8
        I(op, imm, len) ==
            [op |-> op, reg |-> RegOf(rg), rm |-> RegOf(rm), imm |-> imm, len |-> len]
    IN  IF b0 = 195 THEN [Undecoded EXCEPT !.op = "ret"]
        ELSE IF b0 # 72 \/ md # 3 \/ RegOf(rm) = "none" THEN Undecoded
        ELSE CASE b1 = 49 /\ RegOf(rg) # "none" -> I("xor", 0, 3)
               [] b1 = 131 /\ rg = 0 -> I("add", Imm8(mem, rip + 3), 4)
               [] b1 = 129 /\ rg = 5 -> I("sub", Imm32(mem, rip + 3), 7)
               [] b1 = 199 /\ rg = 0 -> I("mov", Imm32(mem, rip + 3), 7)
               [] b1 = 247 /\ rg = 5 -> I("imul", 0, 3)
               [] b1 = 247 /\ rg = 7 -> I("idiv", 0, 3)
               [] OTHER -> Undecoded

\* register number of an A64 register field (31 is XZR / SP, never emitted)
RegOfA64(n) ==
    CASE n = 0 -> "x0"
      [] n = 1 -> "x1"
      [] n = 2 -> "x2"
      [] n = 3 -> "x3"
      [] n = 30 -> "x30"
      [] OTHER -> "none"

UndecodedA64 ==
    [op |-> "ud", rd |-> "none", rn |-> "none", rm |-> "none", ra |-> "none",
     imm |-> 0, len |-> 4]

\* one little-endian A64 word: top byte b3, and the low 24 bits as a number
DecodeA64(mem, rip) ==
    LET b3   == ByteAt(mem, rip + 3)
        lo24 == ByteAt(mem, rip) + 256 * ByteAt(mem, rip + 1) + 65536 * ByteAt(mem, rip + 2)
        top3 == lo24 \div 2097152
        rd   == RegOfA64(lo24 % 32)
        rn   == RegOfA64((lo24 \div 32) % 32)
        ra   == RegOfA64((lo24 \div 1024) % 32)
        rm   == RegOfA64((lo24 \div 65536) % 32)
        I(op, imm) ==
            [op |-> op, rd |-> rd, rn |-> rn, rm |-> rm, ra |-> ra, imm |-> imm, len |-> 4]
    IN  CASE b3 = 82 /\ top3 = 4 /\ rd # "none" ->
                I("movz", ToWord((lo24 \div 32) % 65536))
          [] b3 = 177 /\ top3 \div 2 = 0 /\ rd # "none" /\ rn # "none" ->
                I("adds", ToWord((lo24 \div 1024) % 4096))
          [] b3 = 241 /\ top3 \div 2 = 0 /\ rd # "none" /\ rn # "none" ->
                I("subs", ToWord((lo24 \div 1024) % 4096))
          [] b3 = 155 /\ top3 = 0 /\ (lo24 \div 32768) % 2 = 0
             /\ "none" \notin {rd, rn, rm, ra} ->
                I("madd", 0)
          [] b3 = 154 /\ top3 = 6 /\ (lo24 \div 1024) % 64 = 3
             /\ "none" \notin {rd, rn, rm} ->
                I("sdiv", 0)
          [] b3 = 214 /\ lo24 \div 65536 = 95 /\ (lo24 % 65536) \div 1024 = 0
             /\ lo24 % 32 = 0 /\ rn # "none" ->
                I("ret_x", 0)
          [] OTHER -> UndecodedA64

Decode(arch, mem, rip) ==
    IF arch = "aarch64" THEN DecodeA64(mem, rip) ELSE DecodeX86(mem, rip)

\* registers an instruction reads as inputs / writes
Reads(i) ==
    CASE i.op = "xor" -> {i.rm, i.reg}
      [] i.op \in {"add", "sub"} -> {i.rm}
      [] i.op = "imul" -> {"rax", i.rm}
      [] i.op = "idiv" -> {"rax", "rdx", i.rm}
      [] i.op = "ret" -> {"rsp"}
      [] i.op \in {"adds", "subs", "ret_x"} -> {i.rn}
      [] i.op = "madd" -> {i.rn, i.rm, i.ra}
      [] i.op = "sdiv" -> {i.rn, i.rm}
      [] OTHER -> {}

Writes(i) ==
    CASE i.op \in {"xor", "add", "sub", "mov"} -> {i.rm}
      [] i.op \in {"imul", "idiv"} -> {"rax", "rdx"}
      [] i.op = "ret" -> {"rsp"}
      [] i.op \in {"movz", "adds", "subs", "madd", "sdiv"} -> {i.rd}
      [] OTHER -> {}

IsReturn(i) == i.op \in {"ret", "ret_x"}

\* the 2-word signed value of RDX:RAX
Wide(hi, lo) ==
    LET u == hi * Word + lo
    IN  IF hi >= Word \div 2 THEN u - Word * Word ELSE u

\* IDIV raises #DE on a zero divisor and on a quotient that does not fit
DivideError(regs, i) ==
    LET d == ToSigned(regs[i.rm])
    IN  \/ d = 0
        \/ TruncDiv(Wide(regs["rdx"], regs["rax"]), d) \notin MinInt .. MaxInt

Execute(regs, i) ==
    CASE i.op = "xor" -> [regs EXCEPT ![i.rm] = BitXor(regs[i.rm], regs[i.reg])]
      [] i.op = "add" -> [regs EXCEPT ![i.rm] = ToWord(regs[i.rm] + i.imm)]
      [] i.op = "sub" -> [regs EXCEPT ![i.rm] = ToWord(regs[i.rm] - i.imm)]
      [] i.op = "mov" -> [regs EXCEPT ![i.rm] = i.imm]
      [] i.op = "imul" ->
            LET p == ToSigned(regs["rax"]) * ToSigned(regs[i.rm])
            IN  [regs EXCEPT !["rax"] = ToWord(p), !["rdx"] = ToWord(p \div Word)]
      [] i.op = "idiv" ->
            LET n == Wide(regs["rdx"], regs["rax"])
                d == ToSigned(regs[i.rm])
            IN  [regs EXCEPT !["rax"] = ToWord(TruncDiv(n, d)),
                             !["rdx"] = ToWord(TruncRem(n, d))]
      [] i.op = "ret" -> [regs EXCEPT !["rsp"] = ToWord(regs["rsp"] + 8)]
      [] i.op = "movz" -> [regs EXCEPT ![i.rd] = i.imm]
      [] i.op = "adds" -> [regs EXCEPT ![i.rd] = ToWord(regs[i.rn] + i.imm)]
      [] i.op = "subs" -> [regs EXCEPT ![i.rd] = ToWord(regs[i.rn] - i.imm)]
      [] i.op = "madd" -> [regs EXCEPT ![i.rd] = ToWord(regs[i.ra] + regs[i.rn] * regs[i.rm])]
      [] i.op = "sdiv" ->
            LET d == ToSigned(regs[i.rm])
            IN  [regs EXCEPT ![i.rd] =
                    IF d = 0 THEN 0 ELSE ToWord(TruncDiv(ToSigned(regs[i.rn]), d))]
      [] OTHER -> regs

\* what the caller may have left in the registers when the call is made
EntryVals == {0, 1, Word - 1}
EntryRegs(arch) ==
    IF arch = "aarch64"
    THEN { [x0 |-> a, x1 |-> c, x2 |-> d, x3 |-> b, x30 |-> 0] :
            a \in {0, Word - 1}, c \in {0, Word - 1}, d \in EntryVals, b \in {1, Word - 2} }
    ELSE { [rax |-> a, rcx |-> c, rdx |-> d, rbx |-> b, rsp |-> 0] :
            a \in {0, Word - 1}, c \in {0, Word - 1}, d \in EntryVals, b \in {1, Word - 2} }

\* the register the calling convention returns an i64 in
Accum(arch) == IF arch = "aarch64" THEN "x0" ELSE "rax"

IdleCpu == [regs |-> <<>>, rip |-> 0, status |-> "idle"]


---------------------------------------------------------------------------
(* Inputs *)

RECURSIVE SeqsUpTo(_, _)
SeqsUpTo(S, n) ==
    IF n = 0 THEN {<<>>}
    ELSE LET shorter == SeqsUpTo(S, n - 1)
         IN  shorter \cup {Append(q, x) : q \in shorter, x \in S}

\* the instruction vectors of tests::test_exec_*
TestPrograms ==
    { <<>>,
      <<"Incr">>,
      <<"Decr">>,
      <<"Incr", "Double", "Double">>,
      <<"Decr", "Double", "Double">>,
      <<"Incr", "Double", "Double", "Double", "Decr", "Decr", "Halve">> }

\* 1 doubled until it leaves the signed word: a vector whose values do not fit
Overflowing == <<"Incr">> \o [k \in 1 .. WordBits - 1 |-> "Double"]

Programs == SeqsUpTo(UserInsns, MaxLen) \cup TestPrograms \cup {Overflowing}

\* the program text of tests::test_canonical
TestCanonical == <<"+", " ", "+", " ", "*", " ", "-", " ", "/">>

Perms == {"R", "W", "X"}
NoMem == [acquired |-> FALSE, mapped |-> FALSE, prot |-> {}, bytes |-> <<>>]
NoRet == [tag |-> "None", val |-> 0, err |-> ""]
NoInterp == [panicked |-> FALSE, val |-> 0]

Idle ==
    /\ code_mem = NoMem
    /\ cpu = IdleCpu
    /\ result = 0
    /\ ret = NoRet
    /\ log = <<>>
    /\ finished = <<>>
    /\ interp = NoInterp
    /\ enc_in = <<>>
    /\ enc_out = 0

ExecVars == <<code_mem, cpu, result, ret, log>>

---------------------------------------------------------------------------
(* main.rs:42  parse *)

Parse ==
    /\ pc = "parse"
    /\ insn_seq' = parse(program)
    /\ pc' = "parsed"
    /\ UNCHANGED <<backend, program, native_insn_seq, ExecVars, finished, interp, enc_in, enc_out>>

(* main.rs:268  interpret, in either build profile *)
Interpret ==
    /\ pc = "interpret"
    /\ \E checks \in BOOLEAN : interp' = interpret(insn_seq, checks)
    /\ pc' = "jit"
    /\ UNCHANGED <<backend, program, insn_seq, native_insn_seq, ExecVars, finished, enc_in, enc_out>>

(* main.rs:295  jit *)
Jit ==
    /\ pc = "jit"
    /\ native_insn_seq' = jit(backend, insn_seq)
    /\ pc' = "exec"
    /\ UNCHANGED <<backend, program, insn_seq, ExecVars, finished, interp, enc_in, enc_out>>

---------------------------------------------------------------------------
(* main.rs:56  exec, one action per step *)

Rest == <<backend, program, insn_seq, native_insn_seq, finished, interp, enc_in, enc_out>>

\* mmap_rs zero-fills a fresh anonymous mapping
RECURSIVE Zeros(_)
Zeros(n) == IF n = 0 THEN <<>> ELSE <<0>> \o Zeros(n - 1)

\* line 59: MmapOptions::new(len)?.map_mut()?
MapMut ==
    /\ pc = "exec"
    /\ \/ /\ code_mem' = [acquired |-> TRUE, mapped |-> TRUE, prot |-> {"R", "W"},
                          bytes |-> Zeros(Len(native_insn_seq))]
          /\ log' = Append(log, "map_mut")
          /\ pc' = "mapped"
          /\ ret' = ret
       \/ /\ ret' = [tag |-> "Err", val |-> 0, err |-> "map_mut"]
          /\ log' = Append(log, "map_mut_err")
          /\ pc' = "done"
          /\ code_mem' = code_mem
    /\ UNCHANGED <<cpu, result, Rest>>

\* line 62: std::ptr::copy into the writable mapping
Copy ==
    /\ pc = "mapped"
    /\ "W" \in code_mem.prot
    /\ code_mem' = [code_mem EXCEPT !.bytes = native_insn_seq]
    /\ log' = Append(log, "copy")
    /\ pc' = "copied"
    /\ UNCHANGED <<cpu, result, ret, Rest>>

\* a mapping is unmapped when its owner is dropped
Dropped(m) == [m EXCEPT !.mapped = FALSE, !.prot = {}]

MakeReadOnlyWX ==
    /\ pc = "copied"
    /\ \/ /\ code_mem' = [code_mem EXCEPT !.prot = {"R", "W", "X"}]
          /\ log' = Append(log, "make_read_only")
          /\ pc' = "read_only"
          /\ ret' = ret
       \/ /\ ret' = [tag |-> "Err", val |-> 0, err |-> "make_read_only"]
          /\ code_mem' = Dropped(code_mem)
          /\ log' = Append(log, "make_read_only_err")
          /\ pc' = "done"
    /\ UNCHANGED <<cpu, result, Rest>>

\* lines 65-68: make_read_only, or return Err(e) dropping the mapping
MakeReadOnly ==
    /\ pc = "copied"
    /\ \/ /\ code_mem' = [code_mem EXCEPT !.prot = {"R"}]
          /\ log' = Append(log, "make_read_only")
          /\ pc' = "read_only"
          /\ ret' = ret
       \/ /\ ret' = [tag |-> "Err", val |-> 0, err |-> "make_read_only"]
          /\ code_mem' = Dropped(code_mem)
          /\ log' = Append(log, "make_read_only_err")
          /\ pc' = "done"
    /\ UNCHANGED <<cpu, result, Rest>>

MakeExecLeaks ==
    /\ pc = "read_only"
    /\ \/ /\ code_mem' = [code_mem EXCEPT !.prot = {"R", "X"}]
          /\ log' = Append(log, "make_exec")
          /\ pc' = "executable"
          /\ ret' = ret
       \/ /\ ret' = [tag |-> "Err", val |-> 0, err |-> "make_exec"]
          /\ code_mem' = code_mem
          /\ log' = Append(log, "make_exec_err")
          /\ pc' = "done"
    /\ UNCHANGED <<cpu, result, Rest>>

MakeExecFallsThrough ==
    /\ pc = "read_only"
    /\ \/ /\ code_mem' = [code_mem EXCEPT !.prot = {"R", "X"}]
          /\ log' = Append(log, "make_exec")
       \/ /\ code_mem' = code_mem
          /\ log' = Append(log, "make_exec_err")
    /\ pc' = "executable"
    /\ ret' = ret
    /\ UNCHANGED <<cpu, result, Rest>>

\* lines 70-73: make_exec, or return Err(e) dropping the mapping
MakeExec ==
    /\ pc = "read_only"
    /\ \/ /\ code_mem' = [code_mem EXCEPT !.prot = {"R", "X"}]
          /\ log' = Append(log, "make_exec")
          /\ pc' = "executable"
          /\ ret' = ret
       \/ /\ ret' = [tag |-> "Err", val |-> 0, err |-> "make_exec"]
          /\ code_mem' = Dropped(code_mem)
          /\ log' = Append(log, "make_exec_err")
          /\ pc' = "done"
    /\ UNCHANGED <<cpu, result, Rest>>

\* lines 75-77: the call enters the region with whatever the caller left in
\* the registers
Call ==
    /\ pc = "executable"
    /\ \E regs \in EntryRegs(backend) : cpu' = [regs |-> regs, rip |-> 1, status |-> "running"]
    /\ log' = Append(log, "call")
    /\ pc' = "running"
    /\ UNCHANGED <<code_mem, result, ret, Rest>>

\* one instruction of the region; a fetch from a page without X, an
\* undecodable byte pattern or #DE ends the process, and with it the mapping
NativeStep ==
    /\ pc = "running"
    /\ LET i == Decode(backend, code_mem.bytes, cpu.rip)
           fault == \/ "X" \notin code_mem.prot
                    \/ i.op = "ud"
                    \/ (i.op = "idiv" /\ DivideError(cpu.regs, i))
       IN  IF fault
           THEN /\ cpu' = [cpu EXCEPT !.status = "fault"]
                /\ ret' = [tag |-> "Killed", val |-> 0, err |-> "signal"]
                /\ code_mem' = Dropped(code_mem)
                /\ log' = Append(log, "killed")
                /\ pc' = "done"
                /\ result' = result
           ELSE IF IsReturn(i)
           THEN /\ cpu' = [cpu EXCEPT !.regs = Execute(cpu.regs, i), !.status = "returned"]
                /\ result' = ToSigned(cpu.regs[Accum(backend)])
                /\ log' = Append(log, "result")
                /\ pc' = "called"
                /\ UNCHANGED <<code_mem, ret>>
           ELSE /\ cpu' = [cpu EXCEPT !.regs = Execute(cpu.regs, i), !.rip = cpu.rip + i.len]
                /\ UNCHANGED <<code_mem, result, ret, log, pc>>
    /\ UNCHANGED Rest

\* line 79: return Ok(result); code_mem2 goes out of scope
Return ==
    /\ pc = "called"
    /\ ret' = [tag |-> "Ok", val |-> result, err |-> ""]
    /\ code_mem' = Dropped(code_mem)
    /\ log' = Append(log, "return")
    /\ pc' = "done"
    /\ UNCHANGED <<cpu, result, Rest>>

\* a caller running the same buffer once more (each tests::test_exec_* and
\* main call exec on a buffer; nothing of an invocation outlives it)
ExecAgain ==
    /\ pc = "done"
    /\ finished = <<>>
    /\ ret.tag # "Killed"
    /\ finished' = Append(finished, ret)
    /\ code_mem' = NoMem
    /\ cpu' = IdleCpu
    /\ result' = 0
    /\ ret' = NoRet
    /\ log' = <<>>
    /\ pc' = "exec"
    /\ UNCHANGED <<backend, program, insn_seq, native_insn_seq, interp, enc_in, enc_out>>

---------------------------------------------------------------------------
(* Specifications *)

\* interpret, jit and exec of an instruction vector, as the tests run them
Init ==
    /\ backend = "x86_64"
    /\ insn_seq \in Programs
    /\ program = <<>>
    /\ native_insn_seq = <<>>
    /\ pc = "interpret"
    /\ Idle

Exec == MapMut \/ Copy \/ MakeReadOnly \/ MakeExec \/ Call \/ NativeStep \/ Return

Next == Interpret \/ Jit \/ Exec

Spec == Init /\ [][Next]_vars

\* exec runs to completion: it is straight-line code on the calling thread
FairSpec == Spec /\ WF_vars(Next)

\* the same buffer executed twice
NextTwice == Next \/ ExecAgain

SpecTwice == Init /\ [][NextTwice]_vars

\* the same, for a build linking either backend
InitBackends ==
    /\ backend \in Backends
    /\ insn_seq \in Programs
    /\ program = <<>>
    /\ native_insn_seq = <<>>
    /\ pc = "interpret"
    /\ Idle

SpecBackends == InitBackends /\ [][Next]_vars

\* jit on any instruction vector, driver-only instructions included
InitJit ==
    /\ backend = "x86_64"
    /\ insn_seq \in SeqsUpTo(Insns, MaxJitLen)
    /\ program = <<>>
    /\ native_insn_seq = <<>>
    /\ pc = "jit"
    /\ Idle

SpecJit == InitJit /\ [][Jit]_vars

\* parse on any program text
InitParse ==
    /\ backend = "x86_64"
    /\ program \in SeqsUpTo(Chars, MaxProgLen) \cup {TestCanonical}
    /\ insn_seq = <<>>
    /\ native_insn_seq = <<>>
    /\ pc = "parse"
    /\ Idle

SpecParse == InitParse /\ [][Parse]_vars

\* rex and modrm on any argument list
PartVals == {0, 3, 5, 12, 255}
PartsIn == {Mod(v) : v \in PartVals} \cup {Reg(v) : v \in PartVals} \cup {RM(v) : v \in PartVals}

ApplyRex ==
    /\ pc = "rex"
    /\ enc_out' = rex(enc_in)
    /\ pc' = "rex_done"
    /\ UNCHANGED <<backend, program, insn_seq, native_insn_seq, ExecVars, finished, interp, enc_in>>

ApplyModrm ==
    /\ pc = "modrm"
    /\ enc_out' = modrm(enc_in)
    /\ pc' = "modrm_done"
    /\ UNCHANGED <<backend, program, insn_seq, native_insn_seq, ExecVars, finished, interp, enc_in>>

InitEnc ==
    /\ \/ pc = "rex" /\ enc_in \in SeqsUpTo(RexFlags, MaxOpts)
       \/ pc = "modrm" /\ enc_in \in SeqsUpTo(PartsIn, MaxParts)
    /\ backend = "x86_64"
    /\ program = <<>>
    /\ insn_seq = <<>>
    /\ native_insn_seq = <<>>
    /\ code_mem = NoMem
    /\ cpu = IdleCpu
    /\ result = 0
    /\ ret = NoRet
    /\ log = <<>>
    /\ finished = <<>>
    /\ interp = NoInterp
    /\ enc_out = 0

NextEnc == ApplyRex \/ ApplyModrm

SpecEnc == InitEnc /\ [][NextEnc]_vars


---------------------------------------------------------------------------
(* The accumulator semantics the instructions are meant to have *)

Apply(insn, v) ==
    CASE insn = "Incr" -> v + 1
      [] insn = "Decr" -> v - 1
      [] insn = "Double" -> v * 2
      [] insn = "Halve" -> TruncDiv(v, 2)

RECURSIVE FoldFrom(_, _)
FoldFrom(seq, v) ==
    IF seq = <<>> THEN v ELSE FoldFrom(Tail(seq), Apply(Head(seq), v))

Fold(seq) == FoldFrom(seq, 0)

\* every intermediate and the final value fit the signed word
Fits(seq) == \A k \in 0 .. Len(seq) : Fold(SubSeq(seq, 1, k)) \in MinInt .. MaxInt

\* the invocation has ended and no mapping step failed
Ended == pc = "done" /\ ret.tag # "Err"

(* C1: whenever the mapping steps succeed and every value fits the signed  *)
(* word, exec(jit(seq)) returns Ok(v) with v the in-order fold of seq from *)
(* 0 (Incr +1, Decr -1, Double *2, Halve /2 truncating toward zero).       *)
C1_ExecReturnsFold ==
    (Ended /\ Fits(insn_seq)) => (ret.tag = "Ok" /\ ret.val = Fold(insn_seq))


(* C2: whenever every value fits the signed word (negative values          *)
(* included), interpret(seq) yields the same number as the Ok result of    *)
(* exec(jit(seq)).                                                         *)
C2_InterpretAgreesWithExec ==
    (pc = "done" /\ ret.tag = "Ok" /\ Fits(insn_seq))
        => (~interp.panicked /\ interp.val = ret.val)

---------------------------------------------------------------------------
(* The region's lifecycle *)

RegionState ==
    IF ~code_mem.acquired THEN "None"
    ELSE IF ~code_mem.mapped THEN "Released"
    ELSE CASE code_mem.prot = {"R", "W"} -> "Writable"
           [] code_mem.prot = {"R"} -> "ReadOnly"
           [] code_mem.prot = {"R", "X"} -> "Executable"
           [] OTHER -> "Invalid"

RegionEdges ==
    { <<"None", "Writable">>, <<"Writable", "ReadOnly">>, <<"ReadOnly", "Executable">>,
      <<"Writable", "Released">>, <<"ReadOnly", "Released">>, <<"Executable", "Released">> }

RegionStep == <<RegionState, RegionState'>> \in RegionEdges

(* C3: at every point of every exec invocation the region is in exactly    *)
(* one of Writable, ReadOnly, Executable, Released; it is never writable   *)
(* and executable at once; and its state changes only along                *)
(* Writable->ReadOnly, ReadOnly->Executable and live->Released.            *)
C3_RegionDiscipline ==
    /\ [](code_mem.acquired =>
            /\ RegionState \in {"Writable", "ReadOnly", "Executable", "Released"}
            /\ ~({"W", "X"} \subseteq code_mem.prot))
    /\ [][RegionState' # RegionState => RegionStep]_vars

C3_Witness ==
    /\ pc = "running"
    /\ RegionState = "Executable"
    /\ Decode(backend, code_mem.bytes, cpu.rip).op = "ret"

(* C4: every region exec acquires is eventually released; when exec has    *)
(* returned (Ok, or Err of either transition) the region is Released;      *)
(* Released is never left; and on the success path the release comes only  *)
(* after the native call's result has been captured.                       *)
C4_RegionReleased ==
    /\ []((pc = "done" /\ code_mem.acquired) => RegionState = "Released")
    /\ [][RegionState = "Released" => RegionState' = "Released"]_vars
    /\ [][(RegionState # "Released" /\ RegionState' = "Released" /\ ret'.tag = "Ok")
            => (pc = "called" /\ log[Len(log)] = "result" /\ ret'.val = result)]_vars
    /\ (code_mem.acquired ~> RegionState = "Released")

C4_Witness ==
    /\ pc = "done"
    /\ ret = [tag |-> "Err", val |-> 0, err |-> "make_exec"]
    /\ RegionState = "Released"

(* C5: a failure of map_mut, make_read_only or make_exec ends the          *)
(* invocation at once with Err of that failure: no later step, no retry,   *)
(* no second region, no native call, no Ok; and Ok is returned only after  *)
(* all three succeeded and the native code was called exactly once.        *)
ErrSteps == {"map_mut_err", "make_read_only_err", "make_exec_err"}

StepsBefore(e) ==
    CASE e = "map_mut_err" -> <<>>
      [] e = "make_read_only_err" -> <<"map_mut", "copy">>
      [] e = "make_exec_err" -> <<"map_mut", "copy", "make_read_only">>

FailedStep(e) ==
    CASE e = "map_mut_err" -> "map_mut"
      [] e = "make_read_only_err" -> "make_read_only"
      [] e = "make_exec_err" -> "make_exec"

C5_FailuresAreTerminal ==
    /\ \A k \in 1 .. Len(log) :
          log[k] \in ErrSteps =>
            /\ log = Append(StepsBefore(log[k]), log[k])
            /\ pc = "done"
            /\ ret = [tag |-> "Err", val |-> 0, err |-> FailedStep(log[k])]
            /\ cpu = IdleCpu
    /\ ret.tag = "Err" => \E k \in 1 .. Len(log) : log[k] \in ErrSteps
    /\ ret.tag = "Ok" =>
          log = <<"map_mut", "copy", "make_read_only", "make_exec", "call", "result", "return">>

C5_Witness ==
    /\ pc = "done"
    /\ ret = [tag |-> "Err", val |-> 0, err |-> "make_read_only"]
    /\ log = <<"map_mut", "copy", "make_read_only_err">>

---------------------------------------------------------------------------
(* jit *)

RECURSIVE Flat(_, _)
Flat(arch, seq) ==
    IF seq = <<>> THEN <<>>
    ELSE Flat(arch, SubSeq(seq, 1, Len(seq) - 1)) \o native_insns(arch, seq[Len(seq)])

(* C6: for every instruction vector, driver-only instructions included,    *)
(* jit never fails and returns the Reset bytes, then each instruction's    *)
(* bytes once in order, then the Return bytes, and nothing else.           *)
C6_JitLayout ==
    /\ pc = "jit" => ENABLED Jit
    /\ pc = "exec" =>
          LET n == native_insn_seq
          IN  /\ Len(n) >= 4
              /\ SubSeq(n, 1, 3) = <<72, 49, 192>>
              /\ SubSeq(n, 1, 3) = native_insns(backend, "Reset")
              /\ n[Len(n)] = 195
              /\ <<n[Len(n)]>> = native_insns(backend, "Return")
              /\ SubSeq(n, 4, Len(n) - 1) = Flat(backend, insn_seq)

C6_Witness ==
    /\ pc = "exec"
    /\ insn_seq = <<"Return", "Incr", "Reset">>
    /\ native_insn_seq = <<72, 49, 192, 195, 72, 131, 192, 1, 72, 49, 192, 195>>

---------------------------------------------------------------------------
(* parse *)

Recognized == {"+", "-", "*", "/"}

InsnOf(ch) ==
    CASE ch = "+" -> "Incr"
      [] ch = "-" -> "Decr"
      [] ch = "*" -> "Double"
      [] ch = "/" -> "Halve"

\* positions of the recognized characters of text
Kept(text) == {i \in 1 .. Len(text) : text[i] \in Recognized}

\* the position of the k-th recognized character
KthKept(text, k) ==
    CHOOSE i \in Kept(text) : Cardinality({j \in Kept(text) : j <= i}) = k

(* C7: parse returns one instruction per recognized character, in order    *)
(* ('+' Incr, '-' Decr, '*' Double, '/' Halve), drops every other          *)
(* character without error, and never yields Reset or Return.              *)
C7_ParseMapsAndFilters ==
    /\ pc = "parse" => ENABLED Parse
    /\ pc = "parsed" =>
          /\ Len(insn_seq) = Cardinality(Kept(program))
          /\ \A k \in 1 .. Len(insn_seq) :
                /\ insn_seq[k] = InsnOf(program[KthKept(program, k)])
                /\ insn_seq[k] \notin {"Reset", "Return"}

C7_Witness ==
    /\ pc = "parsed"
    /\ program = <<"+", "x", " ", "/">>
    /\ insn_seq = <<"Incr", "Halve">>

---------------------------------------------------------------------------
(* Register footprint *)

Running == pc = "running" /\ cpu.status = "running"

Footprint == LET i == Decode(backend, code_mem.bytes, cpu.rip) IN Reads(i) \cup Writes(i)

\* registers the calling convention's return itself uses
ReturnRegs == {"rsp", "x30"}

OthersKept(allowed) ==
    (pc = "running" /\ pc' \in {"running", "called"}) =>
        \A r \in (DOMAIN cpu.regs) \ allowed : cpu'.regs[r] = cpu.regs[r]

(* C8: the code of every emitter reads and writes only the accumulator     *)
(* (RAX, x0) and one scratch register (RCX, x1); no other general-purpose  *)
(* register is read or changed (the stack pointer and link register that   *)
(* the return instruction itself uses are left out of account).            *)
C8_AccumAndOneScratch ==
    /\ [](Running => Footprint \subseteq {"rax", "rcx", "x0", "x1"} \cup ReturnRegs)
    /\ [][OthersKept({"rax", "rcx", "x0", "x1"} \cup ReturnRegs)]_vars

(* C8 as amended: the emitted code reads and writes only the accumulator   *)
(* and two fixed scratch registers (RCX and RDX; x1 and x2), and the       *)
(* return instruction the stack pointer (x86_64) or the link register      *)
(* (aarch64); every other general-purpose register is neither read nor     *)
(* changed.                                                                *)
C8_AccumAndTwoScratch ==
    /\ [](Running =>
            LET i == Decode(backend, code_mem.bytes, cpu.rip)
            IN  /\ Footprint \subseteq {"rax", "rcx", "rdx", "x0", "x1", "x2"} \cup ReturnRegs
                /\ Footprint \cap ReturnRegs # {} => IsReturn(i))
    /\ [][OthersKept({"rax", "rcx", "rdx", "x0", "x1", "x2"} \cup ReturnRegs)]_vars

C8_Witness ==
    /\ Running
    /\ backend = "x86_64"
    /\ Decode(backend, code_mem.bytes, cpu.rip).op = "idiv"
    /\ "rdx" \in Footprint
    /\ cpu.regs["rcx"] = 2

---------------------------------------------------------------------------
(* Bit-field encoders *)

Bit(n, k) == (n \div Pow2(k)) % 2

\* bit k is set in some value given for the field, truncated to the field
SomeHas(parts, kind, width, k) ==
    \E j \in 1 .. Len(parts) :
        parts[j].kind = kind /\ Bit(parts[j].val % Pow2(width), k) = 1

Given(parts, kind) == {j \in 1 .. Len(parts) : parts[j].kind = kind}

(* C9: rex returns a byte with high nibble 0100 and bits 3,2,1,0 set        *)
(* exactly for the flags W,R,X,B present; modrm returns a byte holding Mod *)
(* in bits 7-6, Reg in bits 5-3 and RM in bits 2-0, each truncated to its  *)
(* width, a field that is not given being 0.                               *)
C9_Encoders ==
    /\ pc = "rex_done" =>
          LET present == {enc_in[j] : j \in 1 .. Len(enc_in)}
          IN  /\ enc_out \in 0 .. 255
              /\ enc_out \div 16 = 4
              /\ (Bit(enc_out, 3) = 1) = ("W" \in present)
              /\ (Bit(enc_out, 2) = 1) = ("R" \in present)
              /\ (Bit(enc_out, 1) = 1) = ("X" \in present)
              /\ (Bit(enc_out, 0) = 1) = ("B" \in present)
    /\ pc = "modrm_done" =>
          LET md == enc_out \div 64
              rg == (enc_out \div 8) % 8
              rm == enc_out % 8
          IN  /\ enc_out \in 0 .. 255
              /\ \A k \in 0 .. 1 : (Bit(md, k) = 1) = SomeHas(enc_in, "Mod", 2, k)
              /\ \A k \in 0 .. 2 : (Bit(rg, k) = 1) = SomeHas(enc_in, "Reg", 3, k)
              /\ \A k \in 0 .. 2 : (Bit(rm, k) = 1) = SomeHas(enc_in, "RM", 3, k)
              /\ \A j \in Given(enc_in, "Mod") :
                    Given(enc_in, "Mod") = {j} => md = enc_in[j].val % 4
              /\ \A j \in Given(enc_in, "Reg") :
                    Given(enc_in, "Reg") = {j} => rg = enc_in[j].val % 8
              /\ \A j \in Given(enc_in, "RM") :
                    Given(enc_in, "RM") = {j} => rm = enc_in[j].val % 8

C9_Witness ==
    /\ pc = "modrm_done"
    /\ enc_in = <<Reg(12), Mod(255)>>
    /\ enc_out = 224

---------------------------------------------------------------------------
(* C10: two executions of the same generated code that differ only in what *)
(* the caller left in the registers both complete and return the same      *)
(* value.                                                                  *)
C10_ResultIndependentOfEntryRegisters ==
    (pc = "done" /\ finished # <<>> /\ finished[1].tag = "Ok" /\ ret.tag # "Err")
        => ret = finished[1]

===========================================================================
